---- MODULE Spec2Model ----
(***************************************************************************)
(* Memory Garden: PhotoStorage, the StoryRepository of both variants, the  *)
(* request handlers over them, and the VectorIndex of the backend agents.  *)
(*                                                                         *)
(* Several state machines share this module, each with a specification of  *)
(* its own:                                                                *)
(*   SpecPhoto  PhotoStorage (persist, delete) over the upload directory;  *)
(*   SpecSweep  PhotoStorage.delete_many on a file system that may refuse  *)
(*              to remove a file;                                          *)
(*   SpecRepo   the four-operation StoryRepository contract, called        *)
(*              sequentially, on the file-backed and the document-store    *)
(*              variant side by side;                                      *)
(*   SpecFile   the file-backed StoryRepository under concurrent threads,  *)
(*              one step per shared-state access, with process crashes;    *)
(*   SpecLock   the same threads with reads and writes that may raise,     *)
(*              under fair scheduling;                                     *)
(*   SpecApp    the upload, update-photos, delete-photos and audio request *)
(*              handlers, overlapping, on either repository variant;       *)
(*   SpecVec    VectorIndex (add, add_batch, search).                      *)
(* The variables of the machines a specification does not run stay at      *)
(* their initial values.                                                   *)
(***************************************************************************)
EXTENDS Integers, Sequences, FiniteSets, TLC

VARIABLES
  disk,        \* PhotoStorage: the files under UPLOAD_DIR, path -> bytes
  uuid_count,  \* number of uuid4() draws so far
  issued,      \* StoredPhoto values returned by persist so far
  plast,       \* PhotoStorage: the last call, its input, its outcome
  files,       \* file-backed repository: path -> text of data/stories.*
  collection,  \* document-store repository: the documents, insertion order
  added_ids,   \* ids of the successful file-backed add calls, in call order
  rlast,       \* StoryRepository: the last call and its outcome
  lock,        \* StoryRepository._lock: the holding thread, or NoThread
  pc,          \* per thread: position in add / update / list
  call,        \* per thread: the call it runs
  data,        \* per thread: the local `data` list of the call
  before,      \* per thread: the document list the call read
  ret,         \* per thread: the outcome of its last finished call
  overlap,     \* per thread: another call was in flight during its call
  committed,   \* the records the store should hold, by position: the seed,
               \* then every write applied in the order of the renames
  log,         \* the calls started so far: call -> how many times
  n_calls,     \* the number of calls started so far
  seed,        \* the records of the storage file when the repository was built
  crashed,     \* the process died
  denied,      \* operating system: the paths whose unlink it refuses
  variant,     \* application: "file" (FastAPI App) or "doc" (memory-garden)
  clock,       \* the wall clock: the value the next datetime.now() returns
  audio,       \* the files under AUDIO_DIR, path -> the text they speak
  hpc,         \* per request in flight, in arrival order: the await it stands at
  hreq,        \* per request in flight: its local variables that are still read
  hlast,       \* the request the last step finished, if it finished one: its
               \* outcome and the state that step started from
  born,        \* story id -> created_at of the record when add stored it
  n_requests,  \* number of requests started so far
  n_narrated,  \* number of generate_story calls so far
  orphaned,    \* the files persisted by requests whose narration call failed
  deleted,     \* <<story id, photo id>> of the photos that finished
               \* delete-photos requests removed
  vi_docs,     \* VectorIndex.docs
  vi_index,    \* VectorIndex.index: the vectors of the FAISS index, by position
  vi_last      \* VectorIndex: the last search call and its result

photoVars == <<disk, uuid_count, issued, plast>>
repoVars == <<collection, added_ids, rlast>>
threadVars == <<lock, pc, call, data, before, ret, overlap, committed, log, n_calls,
                seed, crashed>>
envVars == <<denied>>
appVars == <<variant, clock, audio, hpc, hreq, hlast, born, n_requests, n_narrated,
             orphaned, deleted>>
vecVars == <<vi_docs, vi_index, vi_last>>
vars == <<photoVars, files, repoVars, threadVars, envVars, appVars, vecVars>>
\* What the actions of each machine leave alone.
notPhoto == <<files, repoVars, threadVars, envVars, appVars, vecVars>>
notRepo == <<disk, issued, plast, threadVars, envVars, appVars, vecVars>>
notFile == <<photoVars, repoVars, envVars, appVars, vecVars>>
notSweep == <<files, repoVars, threadVars, appVars, vecVars>>
notApp == <<issued, plast, added_ids, rlast, threadVars, envVars, vecVars>>
notVec == <<photoVars, files, repoVars, threadVars, envVars, appVars>>

(***************************************************************************)
(* Bounds of the model.                                                    *)
(***************************************************************************)
MaxUploads == 2
MaxUuids == 3
MaxStories == 2
MaxGenerated == 1
NumThreads == 2
MaxCalls == 2
NumHandlers == 2
MaxRequests == 2
MaxDocs == 3

(***************************************************************************)
(* Python values.                                                          *)
(***************************************************************************)
\* Python's None where a string is expected.
None == "<None>"
\* Optional results: a value, or None.
Some(v) == [tag |-> "Some", val |-> v]
Nothing == [tag |-> "None"]
\* The outcome of a call: a returned value, or a raised exception.
Returned(v) == [raised |-> "", val |-> v]
Raised(exc) == [raised |-> exc]

\* uuid4().hex: the n-th draw. Draws never repeat.
UuidHex == <<"u1", "u2", "u3", "u4", "u5", "u6", "u7", "u8", "u9", "u10", "u11", "u12",
             "u13", "u14", "u15", "u16">>
\* uuid4().hex giving the same value on every draw.
uuid4_repeating(n) == UuidHex[1]
uuid4(n) == UuidHex[n + 1]

(***************************************************************************)
(* Paths: a path is the sequence of its parts, a part a <<stem, suffix>>   *)
(* pair ("uploads" is <<"uploads", "">>, "u1.jpg" is <<"u1", ".jpg">>).    *)
(***************************************************************************)
Part(stem) == <<stem, "">>
RootPart == Part("/")
AppDir == <<RootPart, Part("app")>>
UPLOAD_DIR == AppDir \o <<Part("uploads")>>
DATA_DIR == AppDir \o <<Part("data")>>
STORIES_FILE == DATA_DIR \o <<<<"stories", ".json">>>>

is_absolute(path) == Len(path) > 0 /\ path[1] = RootPart
name(path) == path[Len(path)]
parent(path) == SubSeq(path, 1, Len(path) - 1)
suffix(filename) == filename[2]
with_suffix(path, suf) == parent(path) \o <<<<name(path)[1], suf>>>>
\* path.relative_to(other), for a path under other
relative_to(path, other) == SubSeq(path, Len(other) + 1, Len(path))

(***************************************************************************)
(* PhotoStorage                                                            *)
(***************************************************************************)
\* A missing filename or content type is the empty one: the code reads both
\* through `x or default`, which treats None and "" alike.
NoName == <<"", "">>

\* PhotoStorage._resolve_path without its second branch.
resolve_path_no_parent_branch(base_dir, path) ==
  IF is_absolute(path) THEN path ELSE base_dir \o path

_resolve_path(base_dir, path) ==
  IF is_absolute(path) THEN path
  ELSE IF Len(path) > 0 /\ path[1] = name(base_dir) THEN parent(base_dir) \o path
  ELSE base_dir \o path

\* Path.write_bytes that writes nothing.
write_bytes_nowhere(d, path, contents) == d
write_bytes(d, path, contents) == (path :> contents) @@ d
unlink(d, path) == [p \in (DOMAIN d) \ {path} |-> d[p]]

StoredPhoto(id, filename, content_type, size, path) ==
  [id |-> id, filename |-> filename, content_type |-> content_type,
   size |-> size, path |-> path]

\* One pass of persist's loop body for a non-empty upload: the stored photo.
persist_one(base_dir, upload, photo_id) ==
  LET extension == IF suffix(upload.filename) # "" THEN suffix(upload.filename) ELSE ".jpg"
      generated_name == <<photo_id, extension>>
      destination == base_dir \o <<generated_name>>
  IN [destination |-> destination,
      photo |-> StoredPhoto(
                  photo_id,
                  IF upload.filename # NoName THEN upload.filename ELSE generated_name,
                  IF upload.content_type # "" THEN upload.content_type
                                           ELSE "application/octet-stream",
                  Len(upload.contents),
                  relative_to(destination, parent(base_dir)))]

RECURSIVE persist_from(_, _, _, _, _, _)
\* PhotoStorage.persist from upload i on: stored_photos so far, the disk and the
\* uuid draws so far. An empty upload raises HTTPException(400) where the loop
\* stands, after the files of the uploads before it were written.
persist_from(base_dir, photos, i, stored_photos, d, n) ==
  IF i > Len(photos)
  THEN [raised |-> "", stored_photos |-> stored_photos, disk |-> d, uuid_count |-> n]
  ELSE IF photos[i].contents = <<>>
  THEN [raised |-> "HTTPException400", stored_photos |-> <<>>, disk |-> d, uuid_count |-> n]
  ELSE LET one == persist_one(base_dir, photos[i], uuid4(n))
       IN persist_from(base_dir, photos, i + 1,
                       Append(stored_photos, <<one.photo, photos[i].contents>>),
                       write_bytes(d, one.destination, photos[i].contents), n + 1)

persist(base_dir, photos, d, n) == persist_from(base_dir, photos, 1, <<>>, d, n)

\* PhotoStorage.delete letting FileNotFoundError escape.
delete_uncaught(base_dir, photo, d) ==
  LET path == _resolve_path(base_dir, photo.path)
  IN IF path \in DOMAIN d THEN [raised |-> "", disk |-> unlink(d, path)]
     ELSE [raised |-> "FileNotFoundError", disk |-> d]

delete(base_dir, photo, d) ==
  LET path == _resolve_path(base_dir, photo.path)
  IN IF path \in DOMAIN d THEN [raised |-> "", disk |-> unlink(d, path)]
     ELSE [raised |-> "", disk |-> d]

load_bytes(base_dir, photo, d) ==
  LET path == _resolve_path(base_dir, photo.path)
  IN IF path \in DOMAIN d THEN Returned(d[path]) ELSE Raised("FileNotFoundError")

\* The uploads a request may carry: (filename, content type, bytes).
Upload(filename, content_type, contents) ==
  [filename |-> filename, content_type |-> content_type, contents |-> contents]
Uploads ==
  { Upload(<<"cat", ".png">>, "image/png", <<1>>),
    Upload(NoName, "", <<1, 2>>),
    Upload(<<"notes", "">>, "image/png", <<2>>),
    Upload(<<"blank", ".png">>, "image/png", <<>>) }
UploadBatches == UNION { [1..k -> Uploads] : k \in 0..MaxUploads }

PhotoIdle == [op |-> "none"]

InitPhotoVars ==
  /\ disk = <<>>
  /\ uuid_count = 0
  /\ issued = {}
  /\ plast = PhotoIdle

\* await photo_storage.persist(photos)
Persist(photos) ==
  /\ uuid_count + Len(photos) <= MaxUuids
  /\ LET r == persist(UPLOAD_DIR, photos, disk, uuid_count)
     IN /\ disk' = r.disk
        /\ uuid_count' = r.uuid_count
        /\ issued' = issued \cup { r.stored_photos[i][1] : i \in 1..Len(r.stored_photos) }
        /\ plast' = [op |-> "persist", photos |-> photos, pre_disk |-> disk,
                     pre_issued |-> issued, raised |-> r.raised,
                     stored_photos |-> r.stored_photos]
  /\ UNCHANGED notPhoto

\* photo_storage.delete(photo)
Delete(photo) ==
  /\ LET r == delete(UPLOAD_DIR, photo, disk)
     IN /\ disk' = r.disk
        /\ plast' = [op |-> "delete", photo |-> photo, pre_disk |-> disk,
                     raised |-> r.raised]
  /\ UNCHANGED <<uuid_count, issued>>
  /\ UNCHANGED notPhoto

NextPhoto ==
  \/ \E photos \in UploadBatches : Persist(photos)
  \/ \E photo \in issued : Delete(photo)

\* Path.unlink as the operating system performs it: FileNotFoundError for an
\* absent file, PermissionError for a file it refuses to remove.
os_unlink(d, refused, path) ==
  IF path \notin DOMAIN d THEN [raised |-> "FileNotFoundError", disk |-> d]
  ELSE IF path \in refused THEN [raised |-> "PermissionError", disk |-> d]
  ELSE [raised |-> "", disk |-> unlink(d, path)]

\* PhotoStorage.delete on that file system: only FileNotFoundError is caught.
delete_os(base_dir, photo, d, refused) ==
  LET r == os_unlink(d, refused, _resolve_path(base_dir, photo.path))
  IN IF r.raised = "FileNotFoundError" THEN delete(base_dir, photo, d) ELSE r

RECURSIVE delete_many_from(_, _, _, _, _)
\* PhotoStorage.delete_many from photo i on: an exception of delete leaves the
\* loop and the call.
delete_many_from(base_dir, photos, i, d, refused) ==
  IF i > Len(photos) THEN [raised |-> "", disk |-> d]
  ELSE LET r == delete_os(base_dir, photos[i], d, refused)
       IN IF r.raised # "" THEN r
          ELSE delete_many_from(base_dir, photos, i + 1, r.disk, refused)

delete_many(base_dir, photos, d, refused) ==
  delete_many_from(base_dir, photos, 1, d, refused)

\* The photo sequences a caller may pass to delete_many.
PhotoLists == UNION { [1..k -> issued] : k \in 1..MaxUploads }

\* The operating system starts refusing to remove a stored file (its directory
\* turned read-only, the file is held open on a system that forbids removal).
Deny(path) ==
  /\ path \notin denied
  /\ denied' = denied \cup {path}
  /\ UNCHANGED <<photoVars, notSweep>>

\* photo_storage.delete_many(photos)
DeleteMany(photos) ==
  /\ LET r == delete_many(UPLOAD_DIR, photos, disk, denied)
     IN /\ disk' = r.disk
        /\ plast' = [op |-> "delete_many", photos |-> photos, pre_disk |-> disk,
                     raised |-> r.raised]
  /\ UNCHANGED <<uuid_count, issued, denied>>
  /\ UNCHANGED notSweep

NextSweep ==
  \/ \E photos \in UploadBatches : Persist(photos)
  \/ \E path \in DOMAIN disk : Deny(path)
  \/ \E photos \in PhotoLists : DeleteMany(photos)

(***************************************************************************)
(* Story records                                                           *)
(***************************************************************************)
StoryRecord(id, date, weather, location, photos, story, created_at, updated_at) ==
  [id |-> id, date |-> date, weather |-> weather, location |-> location,
   photos |-> photos, story |-> story, created_at |-> created_at,
   updated_at |-> updated_at]

\* The fields of StoryRecord declared without a default: pydantic requires them.
RequiredFields ==
  {"date", "weather", "location", "photos", "story", "created_at", "updated_at"}

PhotoA == StoredPhoto("p1", <<"cat", ".png">>, "image/png", 1,
                      <<Part("uploads"), <<"p1", ".png">>>>)
PhotoB == StoredPhoto("p2", <<"p2", ".jpg">>, "application/octet-stream", 2,
                      <<Part("uploads"), <<"p2", ".jpg">>>>)

\* The records a caller may pass, up to the id: every field takes two values,
\* story is absent in one, the two timestamps differ in one.
Contents ==
  { StoryRecord(None, "2024-05-01", "sunny", "Park", <<PhotoA, PhotoB>>,
                "A day at the park.", 1, 1),
    StoryRecord(None, "2024-05-02", "rain", "Home", <<PhotoA>>, None, 2, 3) }
\* The content of the records a storage file holds from an earlier run.
SeedContent == StoryRecord(None, "2024-06-09", "windy", "Pier", <<PhotoB>>, "Gulls.", 4, 4)

\* The ids a caller supplies: two, so that two records may share an id or not.
StoryIds == {"a", "b"}
WithId(record, id) == [record EXCEPT !.id = id]
Records == { WithId(c, id) : c \in Contents, id \in StoryIds }
RecordsNoId == Contents

(***************************************************************************)
(* File-backed StoryRepository: the JSON text, and the four operations.    *)
(* A text is the sequence of its tokens: "[", one token per document, "]". *)
(***************************************************************************)
isoformat(t) == <<"iso", t>>
fromisoformat(s) == s[2]

Tok(t) == [tok |-> t]
DocTok(d) == [tok |-> "doc", doc |-> d]
json_dumps(docs) ==
  <<Tok("[")>> \o [i \in 1..Len(docs) |-> DocTok(docs[i])] \o <<Tok("]")>>
\* json.loads: the document list of a complete text, JSONDecodeError otherwise.
json_loads(raw) ==
  IF /\ Len(raw) >= 2
     /\ raw[1] = Tok("[")
     /\ raw[Len(raw)] = Tok("]")
     /\ \A i \in 2..(Len(raw) - 1) : raw[i].tok = "doc"
  THEN Returned([i \in 1..(Len(raw) - 2) |-> raw[i + 1].doc])
  ELSE Raised("JSONDecodeError")

storage_path == STORIES_FILE
\* _write_all writing the storage file in place.
temp_path_in_place == STORIES_FILE
temp_path == with_suffix(STORIES_FILE, ".tmp")

write_text(fs, path, text) == (path :> text) @@ fs
\* Path.replace: an atomic rename over the target.
replace(fs, src, dst) ==
  IF src = dst THEN fs
  ELSE [p \in ((DOMAIN fs) \cup {dst}) \ {src} |-> IF p = dst THEN fs[src] ELSE fs[p]]

\* StoryRepository.__init__: the storage file exists and holds "[]".
InitFiles == (storage_path :> json_dumps(<<>>))

_read_all(fs) ==
  IF storage_path \notin DOMAIN fs THEN Returned(<<>>)
  ELSE IF fs[storage_path] = <<>> THEN Returned(<<>>)
  ELSE json_loads(fs[storage_path])

_write_all(fs, docs) ==
  replace(write_text(fs, temp_path, json_dumps(docs)), temp_path, storage_path)

\* _serialize: model_dump keeps every field, the two datetimes become ISO strings.
_serialize(record) ==
  [record EXCEPT !.created_at = isoformat(record.created_at),
                 !.updated_at = isoformat(record.updated_at)]
_deserialize(payload) ==
  [payload EXCEPT !.created_at = fromisoformat(payload.created_at),
                  !.updated_at = fromisoformat(payload.updated_at)]

\* The index of the first document with this id, 0 when there is none.
first_index(docs, key, id) ==
  IF \E i \in 1..Len(docs) : docs[i][key] = id
  THEN CHOOSE i \in 1..Len(docs) :
         /\ docs[i][key] = id
         /\ \A j \in 1..(i - 1) : docs[j][key] # id
  ELSE 0

\* add's list after data.append(serialized), with the new document put first.
appended_first(docs, serialized) == <<serialized>> \o docs
appended(docs, serialized) == Append(docs, serialized)

\* update's list when no id matches, with the document appended (an upsert).
replaced_or_appended(docs, serialized) ==
  LET index == first_index(docs, "id", serialized.id)
  IN IF index = 0 THEN Returned(Append(docs, serialized))
     ELSE Returned([docs EXCEPT ![index] = serialized])
\* update's list holding the new document alone: the other entries are dropped.
replaced_alone(docs, serialized) ==
  LET index == first_index(docs, "id", serialized.id)
  IN IF index = 0 THEN Raised("KeyError") ELSE Returned(<<serialized>>)
\* update's list with the matching document removed instead of replaced.
replaced_removed(docs, serialized) ==
  LET index == first_index(docs, "id", serialized.id)
  IN IF index = 0 THEN Raised("KeyError")
     ELSE Returned(SubSeq(docs, 1, index - 1) \o SubSeq(docs, index + 1, Len(docs)))
\* update's loop: the list with the first matching document replaced.
replaced(docs, serialized) ==
  LET index == first_index(docs, "id", serialized.id)
  IN IF index = 0 THEN Raised("KeyError")
     ELSE Returned([docs EXCEPT ![index] = serialized])

file_add(fs, record) ==
  LET read == _read_all(fs)
  IN IF read.raised # "" THEN [files |-> fs, ret |-> read]
     ELSE [files |-> _write_all(fs, appended(read.val, _serialize(record))),
           ret |-> Returned(record)]

file_list(fs) ==
  LET read == _read_all(fs)
  IN IF read.raised # "" THEN read
     ELSE Returned([i \in 1..Len(read.val) |-> _deserialize(read.val[i])])

file_get(fs, story_id) ==
  LET read == _read_all(fs)
  IN IF read.raised # "" THEN read
     ELSE LET index == first_index(read.val, "id", story_id)
          IN IF index = 0 THEN Returned(Nothing)
             ELSE Returned(Some(_deserialize(read.val[index])))

file_update(fs, record) ==
  LET read == _read_all(fs)
  IN IF read.raised # "" THEN [files |-> fs, ret |-> read]
     ELSE LET new == replaced(read.val, _serialize(record))
          IN IF new.raised # "" THEN [files |-> fs, ret |-> new]
             ELSE [files |-> _write_all(fs, new.val), ret |-> Returned(Nothing)]

(***************************************************************************)
(* Document-store StoryRepository: the collection is the sequence of its   *)
(* documents in insertion order, at most one per _id.                      *)
(***************************************************************************)
\* The keys of a record whose value is not None: model_dump(exclude_none=True).
\* Only id and story are Optional.
not_none_keys(record) == { k \in DOMAIN record : k \notin {"id", "story"} \/ record[k] # None }

\* _serialize: the None-valued fields are dropped, id becomes _id.
doc_serialize(record) ==
  LET payload == [k \in not_none_keys(record) |-> record[k]]
      rest == [k \in (DOMAIN payload) \ {"id"} |-> payload[k]]
  IN IF "id" \in DOMAIN payload THEN ("_id" :> payload.id) @@ rest ELSE rest

\* _deserialize: _id becomes id; StoryRecord(**data) raises ValidationError when a
\* required field is missing, and id defaults to None.
doc_deserialize(payload) ==
  LET rest == [k \in (DOMAIN payload) \ {"_id"} |-> payload[k]]
      fields == IF "_id" \in DOMAIN payload THEN ("id" :> payload["_id"]) @@ rest
                ELSE ("id" :> None) @@ rest
  IN IF RequiredFields \subseteq DOMAIN fields THEN Returned(fields)
     ELSE Raised("ValidationError")

\* Collection.insert_one: the _id is unique.
insert_one(coll, document) ==
  IF first_index(coll, "_id", document["_id"]) # 0
  THEN [collection |-> coll, raised |-> "DuplicateKeyError"]
  ELSE [collection |-> Append(coll, document), raised |-> ""]

\* Collection.find_one({"_id": id})
find_one(coll, id) ==
  LET index == first_index(coll, "_id", id)
  IN IF index = 0 THEN Nothing ELSE Some(coll[index])

\* Collection.replace_one({"_id": id}, replacement, upsert=False)
replace_one(coll, id, replacement) ==
  LET index == first_index(coll, "_id", id)
  IN IF index = 0 THEN [collection |-> coll, matched_count |-> 0]
     ELSE [collection |-> [coll EXCEPT ![index] = replacement], matched_count |-> 1]

doc_add(coll, record, n) ==
  LET serialized == doc_serialize(record)
      generate == "_id" \notin DOMAIN serialized
      record_id == IF generate THEN uuid4(n) ELSE serialized["_id"]
      document == IF generate THEN ("_id" :> record_id) @@ serialized ELSE serialized
      inserted == insert_one(coll, document)
  IN [collection |-> inserted.collection,
      uuid_count |-> IF generate THEN n + 1 ELSE n,
      ret |-> IF inserted.raised # "" THEN Raised(inserted.raised)
              ELSE Returned([record EXCEPT !.id = record_id])]

RECURSIVE deserialize_all(_, _, _)
\* [self._deserialize(document) for document in find({})]
deserialize_all(coll, i, out) ==
  IF i > Len(coll) THEN Returned(out)
  ELSE LET one == doc_deserialize(coll[i])
       IN IF one.raised # "" THEN one
          ELSE deserialize_all(coll, i + 1, Append(out, one.val))

doc_list(coll) == deserialize_all(coll, 1, <<>>)

doc_get(coll, story_id) ==
  IF story_id = None THEN Returned(Nothing)
  ELSE LET document == find_one(coll, story_id)
       IN IF document = Nothing THEN Returned(Nothing)
          ELSE LET one == doc_deserialize(document.val)
               IN IF one.raised # "" THEN one ELSE Returned(Some(one.val))

doc_update(coll, record) ==
  IF record.id = None THEN [collection |-> coll, ret |-> Raised("KeyError")]
  ELSE LET serialized == doc_serialize(record)
           result == replace_one(coll, record.id, serialized)
       IN IF result.matched_count = 0
          THEN [collection |-> result.collection, ret |-> Raised("KeyError")]
          ELSE [collection |-> result.collection, ret |-> Returned(Nothing)]

(***************************************************************************)
(* The repository contract called sequentially: each call goes to the      *)
(* file-backed store and to the document store. A record without an id     *)
(* goes to the document store alone (the file-backed StoryRecord requires  *)
(* its id).                                                                *)
(***************************************************************************)
NotCalled == [raised |-> "n/a"]
RepoIdle == [op |-> "none"]

InitRepoVars ==
  /\ collection = <<>>
  /\ added_ids = <<>>
  /\ rlast = RepoIdle

Called(op, arg, file_ret, doc_ret) ==
  [op |-> op, arg |-> arg, pre_files |-> files, pre_collection |-> collection,
   file_ret |-> file_ret, doc_ret |-> doc_ret]

GeneratedIds == { uuid4(i) : i \in 0..(uuid_count - 1) }

\* story_repository.add(record), the record carrying its id
Add(record) ==
  /\ Len(_read_all(files).val) < MaxStories
  /\ LET f == file_add(files, record)
         d == doc_add(collection, record, uuid_count)
     IN /\ files' = f.files
        /\ collection' = d.collection
        /\ uuid_count' = d.uuid_count
        /\ added_ids' = IF f.ret.raised = "" THEN Append(added_ids, record.id) ELSE added_ids
        /\ rlast' = Called("add", record, f.ret, d.ret)
  /\ UNCHANGED notRepo

\* story_repository.add(record) of the document store, the id left to the store
AddNoId(record) ==
  /\ Len(collection) < MaxStories
  /\ uuid_count < MaxGenerated
  /\ LET d == doc_add(collection, record, uuid_count)
     IN /\ collection' = d.collection
        /\ uuid_count' = d.uuid_count
        /\ rlast' = Called("add", record, NotCalled, d.ret)
  /\ UNCHANGED <<files, added_ids>>
  /\ UNCHANGED notRepo

\* story_repository.update(record)
Update(record) ==
  /\ LET f == file_update(files, record)
         d == doc_update(collection, record)
     IN /\ files' = f.files
        /\ collection' = d.collection
        /\ rlast' = Called("update", record, f.ret, d.ret)
  /\ UNCHANGED <<uuid_count, added_ids>>
  /\ UNCHANGED notRepo

\* story_repository.update(record) of the document store, the record without id
UpdateNoId(record) ==
  /\ LET d == doc_update(collection, record)
     IN /\ collection' = d.collection
        /\ rlast' = Called("update", record, NotCalled, d.ret)
  /\ UNCHANGED <<files, uuid_count, added_ids>>
  /\ UNCHANGED notRepo

\* story_repository.get(story_id)
Get(story_id) ==
  /\ rlast' = Called("get", story_id, file_get(files, story_id),
                     doc_get(collection, story_id))
  /\ UNCHANGED <<files, collection, uuid_count, added_ids>>
  /\ UNCHANGED notRepo

\* story_repository.list()
List ==
  /\ rlast' = Called("list", None, file_list(files), doc_list(collection))
  /\ UNCHANGED <<files, collection, uuid_count, added_ids>>
  /\ UNCHANGED notRepo

NextRepo ==
  \/ \E record \in Records : Add(record)
  \/ \E record \in RecordsNoId : AddNoId(record)
  \/ \E record \in Records \cup { WithId(c, id) : c \in Contents, id \in GeneratedIds } :
       Update(record)
  \/ \E record \in RecordsNoId : UpdateNoId(record)
  \/ \E story_id \in StoryIds \cup GeneratedIds \cup {None} : Get(story_id)
  \/ List

(***************************************************************************)
(* The file-backed repository under concurrent threads (run_in_threadpool).*)
(* A thread takes one step per access to the lock or to a file; the text   *)
(* of a file is written one token at a time, and the process may die       *)
(* between any two steps.                                                  *)
(***************************************************************************)
Threads == 1..NumThreads
NoThread == 0

\* A thread adds the record of an upload (a story, equal timestamps) and updates
\* to the record delete_story_photos writes (no story, a later updated_at).
AddRecords == { WithId(c, id) : c \in { x \in Contents : x.story # None }, id \in StoryIds }
UpdateRecords == { WithId(c, id) : c \in { x \in Contents : x.story = None }, id \in StoryIds }
ThreadCalls ==
  { [op |-> "add", record |-> r] : r \in AddRecords }
  \cup { [op |-> "update", record |-> r] : r \in UpdateRecords }
  \cup { [op |-> "list"] }
NoCall == [op |-> "none"]

\* The storage files a repository may be built over: an empty one, or one
\* holding a record per id.
Seeds == { <<>>, <<WithId(SeedContent, "a"), WithId(SeedContent, "b")>> }

serialize_all(records) == [i \in 1..Len(records) |-> _serialize(records[i])]

InitThreadVars ==
  /\ lock = NoThread
  /\ pc = [t \in Threads |-> "idle"]
  /\ call = [t \in Threads |-> NoCall]
  /\ data = [t \in Threads |-> <<>>]
  /\ before = [t \in Threads |-> <<>>]
  /\ ret = [t \in Threads |-> NotCalled]
  /\ overlap = [t \in Threads |-> FALSE]
  /\ log = [c \in ThreadCalls |-> 0]
  /\ n_calls = 0
  /\ crashed = FALSE

InFlight(t) == pc[t] # "idle"

\* A request thread enters add, update or list; add and update serialize first.
Start(t, c) ==
  /\ ~crashed
  /\ pc[t] = "idle"
  /\ n_calls < MaxCalls
  /\ pc' = [pc EXCEPT ![t] = "lock"]
  /\ call' = [call EXCEPT ![t] = c]
  /\ ret' = [ret EXCEPT ![t] = NotCalled]
  /\ overlap' = [u \in Threads |->
                   IF u = t THEN \E v \in Threads \ {t} : InFlight(v)
                   ELSE overlap[u] \/ InFlight(u)]
  /\ log' = [log EXCEPT ![c] = @ + 1]
  /\ n_calls' = n_calls + 1
  /\ UNCHANGED <<files, lock, data, before, committed, seed, crashed>>
  /\ UNCHANGED notFile

\* `with self._lock:` entered without waiting for the lock.
enter_unlocked(t) ==
  /\ pc[t] = "lock"
  /\ lock' = t
  /\ pc' = [pc EXCEPT ![t] = "read"]
\* `with self._lock:` entered: Lock.acquire blocks while another thread holds it.
enter_lock(t) ==
  /\ pc[t] = "lock"
  /\ lock = NoThread
  /\ lock' = t
  /\ pc' = [pc EXCEPT ![t] = "read"]

Acquire(t) ==
  /\ ~crashed
  /\ enter_lock(t)
  /\ UNCHANGED <<files, call, data, before, ret, overlap, committed, log, n_calls, seed, crashed>>
  /\ UNCHANGED notFile

\* A step that leaves the `with` block and keeps the lock.
Leave_holding_lock(t, outcome) ==
  /\ lock' = lock
  /\ pc' = [pc EXCEPT ![t] = "idle"]
  /\ ret' = [ret EXCEPT ![t] = outcome]
  /\ data' = [data EXCEPT ![t] = <<>>]
  /\ before' = [before EXCEPT ![t] = <<>>]
\* The outcome of a step that leaves the `with` block: the lock is released.
Leave(t, outcome) ==
  /\ lock' = NoThread
  /\ pc' = [pc EXCEPT ![t] = "idle"]
  /\ ret' = [ret EXCEPT ![t] = outcome]
  /\ data' = [data EXCEPT ![t] = <<>>]
  /\ before' = [before EXCEPT ![t] = <<>>]

\* data = self._read_all(), and the change of the local list that follows it.
Read(t) ==
  /\ ~crashed
  /\ pc[t] = "read"
  /\ LET read == _read_all(files)
         new == IF read.raised # "" THEN read
                ELSE IF call[t].op = "add"
                THEN Returned(appended(read.val, _serialize(call[t].record)))
                ELSE IF call[t].op = "update"
                THEN replaced(read.val, _serialize(call[t].record))
                ELSE read
     IN IF new.raised # ""
        THEN Leave(t, new)
        ELSE /\ data' = [data EXCEPT ![t] = new.val]
             /\ before' = [before EXCEPT ![t] = read.val]
             /\ pc' = [pc EXCEPT ![t] = IF call[t].op = "list" THEN "unlock" ELSE "write"]
             /\ UNCHANGED <<lock, ret>>
  /\ UNCHANGED <<files, call, overlap, committed, log, n_calls, seed, crashed>>
  /\ UNCHANGED notFile

\* _write_all: temp_path.write_text opens the temp file, truncating it
WriteOpen(t) ==
  /\ ~crashed
  /\ pc[t] = "write"
  /\ files' = write_text(files, temp_path, <<>>)
  /\ pc' = [pc EXCEPT ![t] = "chunk"]
  /\ UNCHANGED <<lock, call, data, before, ret, overlap, committed, log, n_calls, seed, crashed>>
  /\ UNCHANGED notFile

\* ... and writes json.dumps(data), a token at a time, then closes it
WriteChunk(t) ==
  /\ ~crashed
  /\ pc[t] = "chunk"
  /\ LET text == json_dumps(data[t])
         written == IF temp_path \in DOMAIN files THEN files[temp_path] ELSE <<>>
         k == Len(written)
     IN IF k < Len(text)
        THEN /\ files' = write_text(files, temp_path, Append(written, text[k + 1]))
             /\ pc' = [pc EXCEPT ![t] = IF k + 1 = Len(text) THEN "rename" ELSE "chunk"]
        ELSE /\ files' = files
             /\ pc' = [pc EXCEPT ![t] = "rename"]
  /\ UNCHANGED <<lock, call, data, before, ret, overlap, committed, log, n_calls, seed, crashed>>
  /\ UNCHANGED notFile

\* The records the store should hold once this call's write is applied.
commit(records, c) ==
  IF c.op = "add" THEN Append(records, c.record)
  ELSE LET index == first_index(records, "id", c.record.id)
       IN IF index = 0 THEN records ELSE [records EXCEPT ![index] = c.record]

\* _write_all: temp_path.replace(self._storage_path)
Rename(t) ==
  /\ ~crashed
  /\ pc[t] = "rename"
  /\ files' = IF temp_path \in DOMAIN files THEN replace(files, temp_path, storage_path)
              ELSE files
  /\ committed' = commit(committed, call[t])
  /\ pc' = [pc EXCEPT ![t] = "unlock"]
  /\ UNCHANGED <<lock, call, data, before, ret, overlap, log, n_calls, seed, crashed>>
  /\ UNCHANGED notFile

\* The `with` block ends: the lock is released and the call returns.
Unlock(t) ==
  /\ ~crashed
  /\ pc[t] = "unlock"
  /\ Leave(t, IF call[t].op = "add" THEN Returned(call[t].record)
              ELSE IF call[t].op = "update" THEN Returned(Nothing)
              ELSE Returned([i \in 1..Len(data[t]) |-> _deserialize(data[t][i])]))
  /\ UNCHANGED <<files, call, overlap, committed, log, n_calls, seed, crashed>>
  /\ UNCHANGED notFile

\* The process dies.
Crash ==
  /\ ~crashed
  /\ crashed' = TRUE
  /\ UNCHANGED <<files, lock, pc, call, data, before, ret, overlap, committed, log,
                 n_calls, seed>>
  /\ UNCHANGED notFile

\* read_text raises (an I/O error): the exception leaves the `with` block.
ReadFails(t) ==
  /\ ~crashed
  /\ pc[t] = "read"
  /\ Leave(t, Raised("OSError"))
  /\ UNCHANGED <<files, call, overlap, committed, log, n_calls, seed, crashed>>
  /\ UNCHANGED notFile

\* write_text or replace raises (disk full, an I/O error) where it stands.
WriteFails(t) ==
  /\ ~crashed
  /\ pc[t] \in {"write", "chunk", "rename"}
  /\ Leave(t, Raised("OSError"))
  /\ UNCHANGED <<files, call, overlap, committed, log, n_calls, seed, crashed>>
  /\ UNCHANGED notFile

\* The steps of a thread that the scheduler runs when they can run.
ThreadStep(t) ==
  \/ Acquire(t)
  \/ Read(t)
  \/ WriteOpen(t)
  \/ WriteChunk(t)
  \/ Rename(t)
  \/ Unlock(t)

NextFile ==
  \/ \E t \in Threads, c \in ThreadCalls : Start(t, c)
  \/ \E t \in Threads : Acquire(t)
  \/ \E t \in Threads : Read(t)
  \/ \E t \in Threads : WriteOpen(t)
  \/ \E t \in Threads : WriteChunk(t)
  \/ \E t \in Threads : Rename(t)
  \/ \E t \in Threads : Unlock(t)
  \/ Crash

(***************************************************************************)
(* The specifications.                                                     *)
(***************************************************************************)
(***************************************************************************)
(* The application: the request handlers over PhotoStorage, the narration  *)
(* service, the audio cache and the StoryRepository of the variant.        *)
(***************************************************************************)
AUDIO_DIR == AppDir \o <<Part("audio")>>

Variants == {"file", "doc"}
Handlers == 1..NumHandlers

\* The value of an id-list parameter: absent, or a string of comma separated
\* parts, a part being an id or blank ("" after strip).
NoValue == [form |-> "none"]
Csv(parts) == [form |-> "csv", parts |-> parts]

\* _parse_id_list: None gives [], a string gives its non-blank parts.
_parse_id_list(value) ==
  IF value.form = "none" THEN <<>>
  ELSE SelectSeq(value.parts, LAMBDA part : part # "")

Elements(seq) == { seq[i] : i \in 1..Len(seq) }
photo_ids_of(photos) == { photos[i].id : i \in 1..Len(photos) }
\* [photo for photo in photos if photo.id in ids]
photos_in(photos, ids) == SelectSeq(photos, LAMBDA photo : photo.id \in ids)
\* [photo for photo in photos if photo.id not in ids]
photos_not_in(photos, ids) == SelectSeq(photos, LAMBDA photo : photo.id \notin ids)

\* The texts the narration service returns, one per call.
NarrationTexts == <<"A day at the park.", "Back at the park.", "The park again.",
                    "One more park day.", "Park, once more.", "Park forever.">>
\* generate_story passing over a failure of the service: an empty story.
generate_story_swallowing(answered, n) ==
  IF answered THEN Returned(NarrationTexts[n + 1]) ELSE Returned("")
\* OllamaStoryTeller.generate_story: the n-th call, answered or failing.
generate_story(answered, n) ==
  IF answered THEN Returned(NarrationTexts[n + 1]) ELSE Raised("HTTPException500")

\* record.model_copy(update=...)
model_copy(record, update) == update @@ record

_get_audio_file_path(story_id) == AUDIO_DIR \o <<<<story_id, "_cantonese.mp3">>>>
\* _delete_audio_file: unlink, FileNotFoundError passed over.
_delete_audio_file(aud, story_id) ==
  IF _get_audio_file_path(story_id) \in DOMAIN aud
  THEN unlink(aud, _get_audio_file_path(story_id)) ELSE aud

RECURSIVE load_all(_, _, _, _)
\* [load_bytes(photo) for photo in photos]: the bytes, or the first exception.
load_all(photos, i, d, out) ==
  IF i > Len(photos) THEN Returned(out)
  ELSE LET one == load_bytes(UPLOAD_DIR, photos[i], d)
       IN IF one.raised # "" THEN one
          ELSE load_all(photos, i + 1, d, Append(out, one.val))

\* story_repository.get / add / update of the running variant.
repo_get(story_id) ==
  IF variant = "file" THEN file_get(files, story_id) ELSE doc_get(collection, story_id)
repo_add(record) ==
  IF variant = "file"
  THEN LET r == file_add(files, record)
       IN [files |-> r.files, collection |-> collection, uuid_count |-> uuid_count,
           ret |-> r.ret]
  ELSE LET r == doc_add(collection, record, uuid_count)
       IN [files |-> files, collection |-> r.collection, uuid_count |-> r.uuid_count,
           ret |-> r.ret]
repo_update(record) ==
  IF variant = "file"
  THEN LET r == file_update(files, record)
       IN [files |-> r.files, collection |-> collection, ret |-> r.ret]
  ELSE LET r == doc_update(collection, record)
       IN [files |-> files, collection |-> r.collection, ret |-> r.ret]

\* The stored documents as records, read off the store without validation: a
\* document of the collection without a story key has no story.
stored_record(document) ==
  IF variant = "file" THEN _deserialize(document)
  ELSE StoryRecord(document["_id"], document.date, document.weather, document.location,
                   document.photos,
                   IF "story" \in DOMAIN document THEN document.story ELSE None,
                   document.created_at, document.updated_at)
stored_documents == IF variant = "file" THEN _read_all(files).val ELSE collection
Stored == [i \in 1..Len(stored_documents) |-> stored_record(stored_documents[i])]

NoRequest == [op |-> "none"]
NoOutcome == [op |-> "none", status |-> 0]

InitAppVars ==
  /\ clock = 1
  /\ audio = <<>>
  /\ hpc = [h \in Handlers |-> "idle"]
  /\ hreq = [h \in Handlers |-> NoRequest]
  /\ hlast = NoOutcome
  /\ born = <<>>
  /\ n_requests = 0
  /\ n_narrated = 0
  /\ orphaned = {}
  /\ deleted = {}

(***************************************************************************)
(* The request handlers. A handler runs from one await to the next without *)
(* interruption (one event loop); the repository calls, load_bytes,        *)
(* delete_many and _delete_audio_file run in the thread pool while the     *)
(* handler awaits them, generate_story runs on the event loop itself.      *)
(* Handlers are interchangeable: the requests in flight fill the first     *)
(* handlers in arrival order, a new request takes the first idle one and a *)
(* finished one leaves its place to those behind it.                       *)
(***************************************************************************)
MayStart(h) ==
  /\ hpc[h] = "idle"
  /\ \A g \in Handlers : g < h => hpc[g] # "idle"
  /\ n_requests < MaxRequests

NoRecord == [id |-> None]
\* What a step that finishes a request leaves in hlast: the response, the inputs
\* and locals of the request, and the state the step started from.
Outcome(op, status, detail, req, record) ==
  [op |-> op, status |-> status, detail |-> detail, req |-> req, record |-> record,
   pre_disk |-> disk, pre_stored |-> Stored, pre_audio |-> audio,
   pre_narrated |-> n_narrated]
Finish(h, outcome) ==
  /\ hpc' = [g \in Handlers |-> IF g < h THEN hpc[g]
                                 ELSE IF g < NumHandlers THEN hpc[g + 1] ELSE "idle"]
  /\ hreq' = [g \in Handlers |-> IF g < h THEN hreq[g]
                                  ELSE IF g < NumHandlers THEN hreq[g + 1] ELSE NoRequest]
  /\ hlast' = outcome
Await(h, position, req) ==
  /\ hpc' = [hpc EXCEPT ![h] = position]
  /\ hreq' = [hreq EXCEPT ![h] = req]
  /\ hlast' = NoOutcome

\* `a or b` on form fields: None and "" give b.
or_else(a, b) == IF a \in {None, ""} THEN b ELSE a

\* The StoryRecord of an upload built before the story text is there.
new_story_without_text(id, date, weather, location, stored_photos, story_text, current_time) ==
  StoryRecord(id, date, weather, location, stored_photos, None,
              current_time, current_time)
\* upload_photos_and_generate_story: the StoryRecord it builds.
new_story(id, date, weather, location, stored_photos, story_text, current_time) ==
  StoryRecord(id, date, weather, location, stored_photos, story_text,
              current_time, current_time)

\* update_story_photos stamping created_at as well.
updated_story_reborn(story, date, weather, location, photos, story_text, now) ==
  model_copy(story, [date |-> or_else(date, story.date),
                     weather |-> or_else(weather, story.weather),
                     location |-> or_else(location, story.location),
                     photos |-> photos, story |-> story_text, created_at |-> now,
                     updated_at |-> now])
\* update_story_photos: story.model_copy(update={...})
updated_story(story, date, weather, location, photos, story_text, now) ==
  model_copy(story, [date |-> or_else(date, story.date),
                     weather |-> or_else(weather, story.weather),
                     location |-> or_else(location, story.location),
                     photos |-> photos, story |-> story_text, updated_at |-> now])

\* delete_story_photos leaving the story text in place.
pruned_story_keeping(story, remaining_photos, now) ==
  model_copy(story, [photos |-> remaining_photos, updated_at |-> now])
\* delete_story_photos: story.model_copy(update={...})
pruned_story(story, remaining_photos, now) ==
  model_copy(story, [photos |-> remaining_photos, story |-> None, updated_at |-> now])

\* update_story_photos without the check of keep_photo_ids.
selection_never_invalid(keep_ids, keep_set, photos_to_keep) == FALSE
\* update_story_photos: the keep list names a photo the story does not have.
selection_invalid(keep_ids, keep_set, photos_to_keep) ==
  keep_ids # <<>> /\ Len(photos_to_keep) # Cardinality(keep_set)

\* The uploads of the requests: one photo, two photos, an empty file.
AppBatches ==
  { <<Upload(<<"cat", ".png">>, "image/png", <<1>>)>>,
    <<Upload(<<"cat", ".png">>, "image/png", <<1>>), Upload(NoName, "", <<1, 2>>)>>,
    <<Upload(<<"blank", ".png">>, "image/png", <<>>)>> }
\* The new uploads of an update-photos request: none, or one photo.
NewUploads == { <<>>, <<Upload(<<"notes", "">>, "image/png", <<2>>)>> }
\* The story ids a client asks for: the stored ones and one that is not.
AskedIds == { Stored[i].id : i \in 1..Len(Stored) } \cup {"nope"}
PhotosOf(story_id) ==
  IF \E i \in 1..Len(Stored) : Stored[i].id = story_id
  THEN (CHOOSE r \in Elements(Stored) : r.id = story_id).photos ELSE <<>>
\* The keep lists a client sends about a story: none, a blank one, the first
\* photo of the story, the first photo and an id that is no photo of it, the
\* first photo named twice.
KeepValues(photos) ==
  {NoValue, Csv(<<"">>)}
    \cup { Csv(<<photos[i].id>>) : i \in 1..Len(photos) \cap {1} }
    \cup { Csv(<<photos[i].id, "zz">>) : i \in 1..Len(photos) \cap {1} }
    \cup { Csv(<<photos[i].id, photos[i].id>>) : i \in 1..Len(photos) \cap {1} }
\* The photoIds a client sends about a story: none, an id that is no photo of
\* it, the first photo, the last photo with a blank part and that id.
PhotoIdValues(photos) ==
  {NoValue, Csv(<<"zz">>)}
    \cup { Csv(<<photos[i].id>>) : i \in 1..Len(photos) \cap {1} }
    \cup { Csv(<<photos[i].id, "", "zz">>) : i \in 1..Len(photos) \cap {Len(photos)} }

\* The files of the photos a persist call returned.
files_of(stored_photos) ==
  { _resolve_path(UPLOAD_DIR, stored_photos[i][1].path) : i \in 1..Len(stored_photos) }

\* POST /upload/stories up to `await run_in_threadpool(story_repository.add, ...)`
UploadPersist(h, photos, answered) ==
  /\ MayStart(h)
  /\ n_requests' = n_requests + 1
  /\ LET req == [op |-> "upload", photos |-> photos, answered |-> answered]
         stored == persist(UPLOAD_DIR, photos, disk, uuid_count)
         story_text == generate_story(answered, n_narrated)
     IN IF photos = <<>>
        THEN /\ Finish(h, Outcome("upload", 400, "At least one photo is required.",
                                  req, NoRecord))
             /\ UNCHANGED <<disk, uuid_count, n_narrated, clock, orphaned>>
        ELSE IF stored.raised # ""
        THEN /\ Finish(h, Outcome("upload", 400, "empty upload", req, NoRecord))
             /\ disk' = stored.disk
             /\ uuid_count' = stored.uuid_count
             /\ UNCHANGED <<n_narrated, clock, orphaned>>
        ELSE IF story_text.raised # ""
        THEN /\ Finish(h, Outcome("upload", 500, "narration", req, NoRecord))
             /\ disk' = stored.disk
             /\ uuid_count' = stored.uuid_count
             /\ n_narrated' = n_narrated + 1
             /\ orphaned' = orphaned \cup files_of(stored.stored_photos)
             /\ UNCHANGED clock
        ELSE LET photos_stored == [i \in 1..Len(stored.stored_photos) |->
                                     stored.stored_photos[i][1]]
                 id == IF variant = "file" THEN uuid4(stored.uuid_count) ELSE None
                 record == new_story(id, "2024-05-01", "sunny", "Park", photos_stored,
                                     story_text.val, clock)
             IN /\ Await(h, "upload_add", req @@ [narration |-> n_narrated + 1,
                                                   story_text |-> story_text.val,
                                                   story_record |-> record])
                /\ disk' = stored.disk
                /\ uuid_count' = IF variant = "file" THEN stored.uuid_count + 1
                                 ELSE stored.uuid_count
                /\ n_narrated' = n_narrated + 1
                /\ clock' = clock + 1
                /\ UNCHANGED orphaned
  /\ UNCHANGED <<files, collection, audio, born, variant, deleted>>
  /\ UNCHANGED notApp

\* story_repository.add(story_record) and the response
UploadAdd(h) ==
  /\ hpc[h] = "upload_add"
  /\ LET r == repo_add(hreq[h].story_record)
     IN /\ files' = r.files
        /\ collection' = r.collection
        /\ uuid_count' = r.uuid_count
        /\ IF r.ret.raised # ""
           THEN /\ Finish(h, Outcome("upload", 500, r.ret.raised, hreq[h], NoRecord))
                /\ born' = born
           ELSE /\ Finish(h, Outcome("upload", 200, "", hreq[h], r.ret.val))
                /\ born' = (r.ret.val.id :> r.ret.val.created_at) @@ born
  /\ UNCHANGED <<disk, audio, clock, n_requests, n_narrated, variant, orphaned, deleted>>
  /\ UNCHANGED notApp

\* PUT /stories/{story_id}/photos up to the check of keep_photo_ids
UpdateGet(h, story_id, keep_photo_ids) ==
  /\ MayStart(h)
  /\ n_requests' = n_requests + 1
  /\ LET got == repo_get(story_id)
         keep_ids == _parse_id_list(keep_photo_ids)
         req == [op |-> "update", story_id |-> story_id, keep_ids |-> keep_ids]
     IN IF got.raised # ""
        THEN Finish(h, Outcome("update", 500, got.raised, req, NoRecord))
        ELSE IF got.val = Nothing
        THEN Finish(h, Outcome("update", 404, "Story not found.", req, NoRecord))
        ELSE LET story == got.val.val
                 keep_set == IF keep_ids # <<>> THEN Elements(keep_ids)
                             ELSE photo_ids_of(story.photos)
                 photos_to_keep == photos_in(story.photos, keep_set)
                 found == req @@ [story |-> story, keep_set |-> keep_set,
                                  photos_to_keep |-> photos_to_keep]
             IN IF selection_invalid(keep_ids, keep_set, photos_to_keep)
                THEN Finish(h, Outcome("update", 400, "keep_photo_ids", found, NoRecord))
                \* keep_ids is not read past this check
                ELSE Await(h, "update_load",
                           [k \in (DOMAIN found) \ {"keep_ids"} |-> found[k]])
  /\ UNCHANGED <<disk, uuid_count, files, collection, audio, born, clock, n_narrated,
                 variant, orphaned, deleted>>
  /\ UNCHANGED notApp

\* persist of the new uploads, load_bytes of the kept photos, generate_story
UpdateNarrate(h, new_uploads, answered) ==
  /\ hpc[h] = "update_load"
  /\ LET req == hreq[h] @@ [answered |-> answered]
         stored == IF new_uploads # <<>>
                   THEN persist(UPLOAD_DIR, new_uploads, disk, uuid_count)
                   ELSE [raised |-> "", stored_photos |-> <<>>, disk |-> disk,
                         uuid_count |-> uuid_count]
         kept_bytes == load_all(req.photos_to_keep, 1, stored.disk, <<>>)
         story_text == generate_story(answered, n_narrated)
     IN /\ disk' = stored.disk
        /\ uuid_count' = stored.uuid_count
        /\ IF stored.raised # ""
           THEN /\ Finish(h, Outcome("update", 400, "empty upload", req, NoRecord))
                /\ UNCHANGED <<n_narrated, orphaned>>
           ELSE IF kept_bytes.raised # ""
           THEN /\ Finish(h, Outcome("update", 500, kept_bytes.raised, req, NoRecord))
                /\ UNCHANGED <<n_narrated, orphaned>>
           ELSE IF kept_bytes.val = <<>> /\ stored.stored_photos = <<>>
           THEN /\ Finish(h, Outcome("update", 400, "At least one photo is required.",
                                     req, NoRecord))
                /\ UNCHANGED <<n_narrated, orphaned>>
           ELSE IF story_text.raised # ""
           THEN /\ Finish(h, Outcome("update", 500, "narration", req, NoRecord))
                /\ n_narrated' = n_narrated + 1
                /\ orphaned' = orphaned \cup files_of(stored.stored_photos)
           ELSE /\ Await(h, "update_audio",
                         req @@ [new_photos |-> [i \in 1..Len(stored.stored_photos) |->
                                                   stored.stored_photos[i][1]],
                                 narration |-> n_narrated + 1,
                                 story_text |-> story_text.val])
                /\ n_narrated' = n_narrated + 1
                /\ UNCHANGED orphaned
  /\ UNCHANGED <<files, collection, audio, born, clock, n_requests, variant, deleted>>
  /\ UNCHANGED notApp

\* _delete_audio_file(story.id); without removed photos the record is built now
UpdateAudio(h) ==
  /\ hpc[h] = "update_audio"
  /\ audio' = _delete_audio_file(audio, hreq[h].story.id)
  /\ LET req == hreq[h]
         removed_photos == photos_not_in(req.story.photos, req.keep_set)
     IN IF removed_photos # <<>>
        THEN /\ Await(h, "update_prune", req @@ [removed_photos |-> removed_photos])
             /\ clock' = clock
        ELSE /\ Await(h, "update_write",
                      req @@ [removed_photos |-> removed_photos,
                              updated_record |->
                                updated_story(req.story, None, None, None,
                                              req.photos_to_keep \o req.new_photos,
                                              req.story_text, clock)])
             /\ clock' = clock + 1
  /\ UNCHANGED <<disk, uuid_count, files, collection, born, n_requests, n_narrated,
                 variant, orphaned, deleted>>
  /\ UNCHANGED notApp

\* photo_storage.delete_many(removed_photos), then the record is built
UpdatePrune(h) ==
  /\ hpc[h] = "update_prune"
  /\ LET req == hreq[h]
         r == delete_many(UPLOAD_DIR, req.removed_photos, disk, denied)
     IN /\ disk' = r.disk
        /\ IF r.raised # ""
           THEN /\ Finish(h, Outcome("update", 500, r.raised, req, NoRecord))
                /\ clock' = clock
           ELSE /\ Await(h, "update_write",
                         req @@ [updated_record |->
                                   updated_story(req.story, None, None, None,
                                                 req.photos_to_keep \o req.new_photos,
                                                 req.story_text, clock)])
                /\ clock' = clock + 1
  /\ UNCHANGED <<uuid_count, files, collection, audio, born, n_requests, n_narrated,
                 variant, orphaned, deleted>>
  /\ UNCHANGED notApp

\* story_repository.update(updated_record) and the response
UpdateWrite(h) ==
  /\ hpc[h] = "update_write"
  /\ LET r == repo_update(hreq[h].updated_record)
     IN /\ files' = r.files
        /\ collection' = r.collection
        /\ IF r.ret.raised # ""
           THEN Finish(h, Outcome("update", 500, r.ret.raised, hreq[h], NoRecord))
           ELSE Finish(h, Outcome("update", 200, "", hreq[h], hreq[h].updated_record))
  /\ UNCHANGED <<disk, uuid_count, audio, born, clock, n_requests, n_narrated, variant,
                 orphaned, deleted>>
  /\ UNCHANGED notApp

\* DELETE /stories/{story_id}/photos up to the checks of photoIds
DeleteGet(h, story_id, photo_ids) ==
  /\ MayStart(h)
  /\ n_requests' = n_requests + 1
  /\ LET got == repo_get(story_id)
         ids_to_remove == Elements(_parse_id_list(photo_ids))
         req == [op |-> "delete", story_id |-> story_id, ids_to_remove |-> ids_to_remove]
     IN IF got.raised # ""
        THEN Finish(h, Outcome("delete", 500, got.raised, req, NoRecord))
        ELSE IF got.val = Nothing
        THEN Finish(h, Outcome("delete", 404, "Story not found.", req, NoRecord))
        ELSE LET story == got.val.val
                 photos_to_delete == photos_in(story.photos, ids_to_remove)
                 found == req @@ [story |-> story, photos_to_delete |-> photos_to_delete,
                                  remaining_photos |->
                                    photos_not_in(story.photos, ids_to_remove)]
             IN IF ids_to_remove = {}
                THEN Finish(h, Outcome("delete", 400, "photoIds are required", found,
                                       NoRecord))
                ELSE IF photos_to_delete = <<>>
                THEN Finish(h, Outcome("delete", 400, "None of the requested photos",
                                       found, NoRecord))
                ELSE Await(h, "delete_prune", found)
  /\ UNCHANGED <<disk, uuid_count, files, collection, audio, born, clock, n_narrated,
                 variant, orphaned, deleted>>
  /\ UNCHANGED notApp

\* photo_storage.delete_many(photos_to_delete)
DeletePrune(h) ==
  /\ hpc[h] = "delete_prune"
  /\ LET r == delete_many(UPLOAD_DIR, hreq[h].photos_to_delete, disk, denied)
     IN /\ disk' = r.disk
        /\ IF r.raised # ""
           THEN Finish(h, Outcome("delete", 500, r.raised, hreq[h], NoRecord))
           ELSE Await(h, "delete_audio", hreq[h])
  /\ UNCHANGED <<uuid_count, files, collection, audio, born, clock, n_requests,
                 n_narrated, variant, orphaned, deleted>>
  /\ UNCHANGED notApp

\* _delete_audio_file(story.id), then the record is built
DeleteAudio(h) ==
  /\ hpc[h] = "delete_audio"
  /\ audio' = _delete_audio_file(audio, hreq[h].story.id)
  /\ Await(h, "delete_write",
           hreq[h] @@ [updated_record |->
                         pruned_story(hreq[h].story, hreq[h].remaining_photos, clock)])
  /\ clock' = clock + 1
  /\ UNCHANGED <<disk, uuid_count, files, collection, born, n_requests, n_narrated,
                 variant, orphaned, deleted>>
  /\ UNCHANGED notApp

\* story_repository.update(updated_record) and the response
DeleteWrite(h) ==
  /\ hpc[h] = "delete_write"
  /\ LET r == repo_update(hreq[h].updated_record)
     IN /\ files' = r.files
        /\ collection' = r.collection
        /\ IF r.ret.raised # ""
           THEN /\ Finish(h, Outcome("delete", 500, r.ret.raised, hreq[h], NoRecord))
                /\ deleted' = deleted
           ELSE /\ Finish(h, Outcome("delete", 200, "", hreq[h], hreq[h].updated_record))
                /\ deleted' = deleted \cup { <<hreq[h].story.id, id>> :
                                               id \in photo_ids_of(hreq[h].photos_to_delete) }
  /\ UNCHANGED <<disk, uuid_count, audio, born, clock, n_requests, n_narrated, variant,
                 orphaned>>
  /\ UNCHANGED notApp

\* GET /stories/{story_id}/audio up to `await _translate_to_cantonese(...)`
AudioGet(h, story_id) ==
  /\ MayStart(h)
  /\ n_requests' = n_requests + 1
  /\ LET got == repo_get(story_id)
         req == [op |-> "audio", story_id |-> story_id]
     IN IF got.raised # ""
        THEN Finish(h, Outcome("audio", 500, got.raised, req, NoRecord))
        ELSE IF got.val = Nothing
        THEN Finish(h, Outcome("audio", 404, "Story not found.", req, NoRecord))
        ELSE IF got.val.val.story \in {None, ""}
        THEN Finish(h, Outcome("audio", 404, "No story text", req, NoRecord))
        ELSE IF _get_audio_file_path(got.val.val.id) \in DOMAIN audio
        THEN Finish(h, Outcome("audio", 200, "", req, got.val.val))
        ELSE Await(h, "audio_save", req @@ [story |-> got.val.val])
  /\ UNCHANGED <<disk, uuid_count, files, collection, audio, born, clock, n_narrated,
                 variant, orphaned, deleted>>
  /\ UNCHANGED notApp

\* the translation, then gTTS(...).save(output_path)
AudioSave(h, translated) ==
  /\ hpc[h] = "audio_save"
  /\ IF translated
     THEN /\ audio' = (_get_audio_file_path(hreq[h].story.id) :> hreq[h].story.story)
                        @@ audio
          /\ Finish(h, Outcome("audio", 200, "", hreq[h], hreq[h].story))
     ELSE /\ audio' = audio
          /\ Finish(h, Outcome("audio", 500, "translation", hreq[h], NoRecord))
  /\ UNCHANGED <<disk, uuid_count, files, collection, born, clock, n_requests,
                 n_narrated, variant, orphaned, deleted>>
  /\ UNCHANGED notApp

NextApp ==
  \/ \E h \in Handlers, photos \in AppBatches, answered \in BOOLEAN :
       UploadPersist(h, photos, answered)
  \/ \E h \in Handlers : UploadAdd(h)
  \/ \E h \in Handlers :
       /\ MayStart(h)
       /\ \E story_id \in AskedIds :
            \E keep_photo_ids \in KeepValues(PhotosOf(story_id)) :
              UpdateGet(h, story_id, keep_photo_ids)
  \/ \E h \in Handlers, new_uploads \in NewUploads, answered \in BOOLEAN :
       UpdateNarrate(h, new_uploads, answered)
  \/ \E h \in Handlers : UpdateAudio(h)
  \/ \E h \in Handlers : UpdatePrune(h)
  \/ \E h \in Handlers : UpdateWrite(h)
  \/ \E h \in Handlers :
       /\ MayStart(h)
       /\ \E story_id \in AskedIds :
            \E photo_ids \in PhotoIdValues(PhotosOf(story_id)) :
              DeleteGet(h, story_id, photo_ids)
  \/ \E h \in Handlers : DeletePrune(h)
  \/ \E h \in Handlers : DeleteAudio(h)
  \/ \E h \in Handlers : DeleteWrite(h)
  \/ \E h \in Handlers :
       /\ MayStart(h)
       /\ \E story_id \in AskedIds : AudioGet(h, story_id)
  \/ \E h \in Handlers, translated \in BOOLEAN : AudioSave(h, translated)


(***************************************************************************)
(* VectorIndex: a flat L2 FAISS index of one dimension next to the list of *)
(* the documents, a document being its name and its embedding.             *)
(***************************************************************************)
Embeddings == {0, 1, 2}
Doc(nm, embedding) == [name |-> nm, embedding |-> embedding]
\* The n-th document handed to the index.
DocNames == <<"d1", "d2", "d3", "d4", "d5", "d6">>

\* Squared Euclidean distance of two vectors of dimension 1.
L2(a, b) == (a - b) * (a - b)

\* faiss IndexFlatL2.search for one query: k positions (0-based) of the nearest
\* vectors, nearest first and the earlier of two equally near first, filled up
\* with -1 when the index holds fewer than k vectors.
index_search(vectors, query, k) ==
  LET n == Len(vectors)
      nearer(j, i) ==
        \/ L2(vectors[j + 1], query) < L2(vectors[i + 1], query)
        \/ L2(vectors[j + 1], query) = L2(vectors[i + 1], query) /\ j < i
      rank(i) == Cardinality({ j \in 0..(n - 1) : nearer(j, i) })
  IN [p \in 1..k |-> IF p <= n THEN CHOOSE i \in 0..(n - 1) : rank(i) = p - 1 ELSE -1]

\* list[i] of Python: a negative i counts from the end, and an i outside
\* -len(list)..len(list)-1 raises IndexError.
in_range(list, i) == -Len(list) <= i /\ i < Len(list)
getitem(list, i) == IF i >= 0 THEN list[i + 1] ELSE list[Len(list) + i + 1]
\* VectorIndex.search: [self.docs[i] for i in I[0] if i < len(self.docs)]
search(docs, vectors, query, k) ==
  LET I == index_search(vectors, query, k)
      kept == SelectSeq(I, LAMBDA i : i < Len(docs))
  IN IF \E p \in 1..Len(kept) : ~in_range(docs, kept[p]) THEN Raised("IndexError")
     ELSE Returned([p \in 1..Len(kept) |-> getitem(docs, kept[p])])

VecIdle == [op |-> "none"]
InitVecVars ==
  /\ vi_docs = <<>>
  /\ vi_index = <<>>
  /\ vi_last = VecIdle

\* VectorIndex.add(doc)
VecAdd(embedding) ==
  /\ Len(vi_docs) < MaxDocs
  /\ vi_index' = Append(vi_index, embedding)
  /\ vi_docs' = Append(vi_docs, Doc(DocNames[Len(vi_docs) + 1], embedding))
  /\ vi_last' = VecIdle
  /\ UNCHANGED notVec

\* VectorIndex.add_batch(docs), two documents
VecAddBatch(first, second) ==
  /\ Len(vi_docs) + 2 <= MaxDocs
  /\ vi_index' = vi_index \o <<first, second>>
  /\ vi_docs' = vi_docs \o <<Doc(DocNames[Len(vi_docs) + 1], first),
                              Doc(DocNames[Len(vi_docs) + 2], second)>>
  /\ vi_last' = VecIdle
  /\ UNCHANGED notVec

\* VectorIndex.search(query_vec, k)
VecSearch(query, k) ==
  /\ vi_last' = [op |-> "search", query |-> query, k |-> k,
                 result |-> search(vi_docs, vi_index, query, k)]
  /\ UNCHANGED <<vi_docs, vi_index>>
  /\ UNCHANGED notVec

NextVec ==
  \/ \E embedding \in Embeddings : VecAdd(embedding)
  \/ \E first, second \in Embeddings : VecAddBatch(first, second)
  \/ \E query \in Embeddings, k \in 1..(MaxDocs + 1) : VecSearch(query, k)

InitPhoto ==
  /\ InitPhotoVars
  /\ files = InitFiles
  /\ InitRepoVars
  /\ InitThreadVars /\ seed = <<>> /\ committed = <<>>
  /\ denied = {}
  /\ InitAppVars /\ variant = "file"
  /\ InitVecVars
SpecPhoto == InitPhoto /\ [][NextPhoto]_vars
SpecSweep == InitPhoto /\ [][NextSweep]_vars
SpecVec == InitPhoto /\ [][NextVec]_vars

InitRepo == InitPhoto
SpecRepo == InitRepo /\ [][NextRepo]_vars

InitFile ==
  /\ InitPhotoVars
  /\ InitRepoVars
  /\ InitThreadVars
  /\ seed \in Seeds
  /\ committed = seed
  /\ files = (storage_path :> json_dumps(serialize_all(seed)))
  /\ denied = {}
  /\ InitAppVars /\ variant = "file"
  /\ InitVecVars
SpecFile == InitFile /\ [][NextFile]_vars

\* The same threads over a store that starts empty, in a process that lives on,
\* with reads and writes that may raise; every thread that can take a step takes
\* one in the end.
InitLock == InitFile /\ seed = <<>>
\* The calls about one id: add, update (no matching id before the add), list.
LockCalls == { c \in ThreadCalls : c.op = "list" \/ c.record.id = "a" }
NextLock ==
  \/ \E t \in Threads, c \in LockCalls : Start(t, c)
  \/ \E t \in Threads : ThreadStep(t)
  \/ \E t \in Threads : ReadFails(t)
  \/ \E t \in Threads : WriteFails(t)
SpecLock == InitLock /\ [][NextLock]_vars /\ \A t \in Threads : WF_vars(ThreadStep(t))

\* The application starts on the store and the upload directory an earlier
\* upload of two photos left: one story, its two photo files, no audio file.
FirstStory ==
  StoryRecord("s0", "2024-05-01", "sunny", "Park", <<PhotoA, PhotoB>>,
              NarrationTexts[1], 0, 0)
InitApp ==
  /\ disk = (_resolve_path(UPLOAD_DIR, PhotoA.path) :> <<1>>)
              @@ (_resolve_path(UPLOAD_DIR, PhotoB.path) :> <<1, 2>>)
  /\ uuid_count = 0
  /\ issued = {}
  /\ plast = PhotoIdle
  /\ variant \in Variants
  /\ files = (storage_path :> json_dumps(<<_serialize(FirstStory)>>))
  /\ collection = <<doc_serialize(FirstStory)>>
  /\ added_ids = <<>>
  /\ rlast = RepoIdle
  /\ InitThreadVars /\ seed = <<>> /\ committed = <<>>
  /\ denied = {}
  /\ clock = 1
  /\ audio = <<>>
  /\ hpc = [h \in Handlers |-> "idle"]
  /\ hreq = [h \in Handlers |-> NoRequest]
  /\ hlast = NoOutcome
  /\ born = (FirstStory.id :> FirstStory.created_at)
  /\ n_requests = 0
  /\ n_narrated = 1
  /\ orphaned = {}
  /\ deleted = {}
  /\ InitVecVars
SpecApp == InitApp /\ [][NextApp]_vars

(***************************************************************************)
(* Properties of the file-backed repository under concurrency (SpecFile).  *)
(***************************************************************************)
Quiescent == ~crashed /\ \A t \in Threads : pc[t] = "idle"
Count(s, x) == Cardinality({ i \in 1..Len(s) : s[i] = x })
OnlyAdds == \A c \in ThreadCalls : log[c] > 0 => c.op = "add"

\* C1: concurrent add calls against a store that starts empty each return
\* their record, and once all have returned list() holds exactly one entry per
\* call: as many entries as calls, each record as often as it was added.
C1_ConcurrentAddsAllListed ==
  (seed = <<>> /\ OnlyAdds) =>
    /\ \A t \in Threads :
         (pc[t] = "idle" /\ call[t].op = "add") => ret[t] = Returned(call[t].record)
    /\ Quiescent =>
         LET listed == file_list(files)
         IN /\ listed.raised = ""
            /\ Len(listed.val) = n_calls
            /\ \A r \in AddRecords :
                 Count(listed.val, r) = log[[op |-> "add", record |-> r]]

\* C1 witness: two add calls that overlapped in time have both returned.
C1_Witness ==
  /\ seed = <<>>
  /\ Quiescent
  /\ n_calls >= 2
  /\ OnlyAdds
  /\ \E t, u \in Threads :
       /\ t # u
       /\ overlap[t] /\ overlap[u]
       /\ ret[t].raised = "" /\ ret[u].raised = ""
  /\ Len(file_list(files).val) = n_calls

\* C2: the storage file always holds the seed with every committed write applied
\* to its own entry, in the order of the renames: an update replaces the entry of
\* its id and no concurrent update overwrites or reverts that entry or changes
\* another one.
C2_ConcurrentUpdatesKeepBoth ==
  LET read == _read_all(files)
  IN /\ read.raised = ""
     /\ read.val = serialize_all(committed)

\* C2 witness: two update calls on different ids that overlapped in time have
\* both returned and the store holds both records, in the seed's positions.
C2_Witness ==
  \E t, u \in Threads :
    /\ t # u
    /\ pc[t] = "idle" /\ pc[u] = "idle"
    /\ call[t].op = "update" /\ call[u].op = "update"
    /\ call[t].record.id # call[u].record.id
    /\ overlap[t] /\ overlap[u]
    /\ ret[t] = Returned(Nothing) /\ ret[u] = Returned(Nothing)
    /\ file_get(files, call[t].record.id) = Returned(Some(call[t].record))
    /\ file_get(files, call[u].record.id) = Returned(Some(call[u].record))
    /\ Len(file_list(files).val) = Len(seed)

Writing(t) == pc[t] \in {"write", "chunk", "rename", "unlock"} /\ call[t].op # "list"

\* C3: in every state, so wherever the process dies, the storage file reads as a
\* complete document list, and while an add or update is writing it is the list
\* that call read or the list that call writes.
C3_CrashLeavesOldOrNew ==
  LET read == _read_all(files)
  IN /\ read.raised = ""
     /\ \A t \in Threads : Writing(t) => read.val \in {before[t], data[t]}

\* C3 witness: the process died part-way through the temp-file write of a call
\* that changes a non-empty store, and the storage file holds the old list.
C3_Witness ==
  /\ crashed
  /\ \E t \in Threads :
       /\ pc[t] = "chunk"
       /\ before[t] # <<>>
       /\ temp_path \in DOMAIN files
       /\ Len(files[temp_path]) > 0
       /\ Len(files[temp_path]) < Len(json_dumps(data[t]))
       /\ _read_all(files) = Returned(before[t])

(***************************************************************************)
(* Properties of the repository contract (SpecRepo).                       *)
(***************************************************************************)
PreDocs == _read_all(rlast.pre_files).val
FileAbsent(id) == first_index(PreDocs, "id", id) = 0
DocAbsent(id) == find_one(rlast.pre_collection, id) = Nothing

\* C4: update with an id that is not in the store raises KeyError and leaves the
\* store as it was, in the file-backed and in the document-store variant.
C4_UpdateAbsentFails ==
  rlast.op = "update" =>
    /\ (rlast.file_ret # NotCalled /\ FileAbsent(rlast.arg.id)) =>
         /\ rlast.file_ret = Raised("KeyError")
         /\ files = rlast.pre_files
    /\ DocAbsent(rlast.arg.id) =>
         /\ rlast.doc_ret = Raised("KeyError")
         /\ collection = rlast.pre_collection

\* C4 witness: an update with an id neither non-empty store holds.
C4_Witness ==
  /\ rlast.op = "update"
  /\ rlast.file_ret # NotCalled
  /\ FileAbsent(rlast.arg.id) /\ DocAbsent(rlast.arg.id)
  /\ PreDocs # <<>> /\ rlast.pre_collection # <<>>
  /\ rlast.file_ret.raised = "KeyError" /\ rlast.doc_ret.raised = "KeyError"

\* The record with every field of r but the id, which is the one given.
SameButId(r, id) == Returned(Some([r EXCEPT !.id = id]))

\* C5 (as claimed): after add(r) returns, get(r.id) returns a record whose every
\* field equals r's, the id excepted only when the store generated it.
C5_AddThenGet ==
  rlast.op = "add" =>
    /\ rlast.file_ret.raised = "" =>
         file_get(files, rlast.arg.id) = Returned(Some(rlast.arg))
    /\ rlast.doc_ret.raised = "" =>
         /\ rlast.arg.id # None => rlast.doc_ret.val.id = rlast.arg.id
         /\ doc_get(collection, rlast.doc_ret.val.id)
              = SameButId(rlast.arg, rlast.doc_ret.val.id)

\* C6: list() of the file-backed store returns one record per add call so far,
\* in the order of the add calls, whatever update, get and list calls came between.
C6_ListInAddOrder ==
  LET listed == file_list(files)
  IN /\ listed.raised = ""
     /\ Len(listed.val) = Len(added_ids)
     /\ \A i \in 1..Len(added_ids) : listed.val[i].id = added_ids[i]

\* C6 witness: two records with different ids were added and the first added was
\* then updated.
C6_Witness ==
  /\ Len(added_ids) >= 2
  /\ added_ids[1] # added_ids[2]
  /\ rlast.op = "update"
  /\ rlast.file_ret = Returned(Nothing)
  /\ rlast.arg.id = added_ids[1]
  /\ file_list(files).val[1] = rlast.arg

OthersUnchanged(docs, pre, key, id) ==
  /\ Len(docs) = Len(pre)
  /\ \A i \in 1..Len(pre) : pre[i][key] # id => docs[i] = pre[i]

\* C7 (as claimed): a successful update(record) replaces the whole document:
\* get(record.id) then returns exactly the record, and every entry with another id
\* is unchanged, in both variants.
C7_UpdateReplacesWhole ==
  (rlast.op = "update") =>
    /\ rlast.file_ret = Returned(Nothing) =>
         /\ file_get(files, rlast.arg.id) = Returned(Some(rlast.arg))
         /\ OthersUnchanged(_read_all(files).val, PreDocs, "id", rlast.arg.id)
    /\ rlast.doc_ret = Returned(Nothing) =>
         /\ doc_get(collection, rlast.arg.id) = Returned(Some(rlast.arg))
         /\ OthersUnchanged(collection, rlast.pre_collection, "_id", rlast.arg.id)

(***************************************************************************)
(* Properties of PhotoStorage (SpecPhoto).                                 *)
(***************************************************************************)
NonEmpty(photos) == \A i \in 1..Len(photos) : photos[i].contents # <<>>

\* C8: persist on non-empty uploads returns one StoredPhoto per upload, in upload
\* order, with ids distinct from each other and from those of earlier calls, the
\* size of the content, and a relative path that _resolve_path maps to an existing
\* file holding the uploaded bytes.
C8_PersistRoundTrip ==
  (plast.op = "persist" /\ NonEmpty(plast.photos)) =>
    LET stored == plast.stored_photos
    IN /\ plast.raised = ""
       /\ Len(stored) = Len(plast.photos)
       /\ \A i \in 1..Len(stored) :
            LET photo == stored[i][1]
                path == _resolve_path(UPLOAD_DIR, photo.path)
            IN /\ stored[i][2] = plast.photos[i].contents
               /\ photo.size = Len(plast.photos[i].contents)
               /\ ~is_absolute(photo.path)
               /\ path \in DOMAIN disk
               /\ disk[path] = plast.photos[i].contents
               /\ \A j \in 1..Len(stored) : j # i => stored[j][1].id # photo.id
               /\ \A old \in plast.pre_issued : old.id # photo.id

\* C8 witness: a batch of two uploads was persisted after an earlier call.
C8_Witness ==
  /\ plast.op = "persist"
  /\ Len(plast.photos) = 2
  /\ NonEmpty(plast.photos)
  /\ plast.pre_issued # {}
  /\ Len(plast.stored_photos) = 2

\* C9 (as claimed): persist on a batch holding a zero-byte upload at any position
\* fails with the empty-upload error and leaves the files of the storage directory
\* as they were.
C9_EmptyUploadWritesNothing ==
  (plast.op = "persist" /\ ~NonEmpty(plast.photos)) =>
    /\ plast.raised = "HTTPException400"
    /\ disk = plast.pre_disk

\* C10: delete on a photo whose file is absent returns without error and changes
\* no file, and deleting a photo twice leaves the files that deleting it once leaves.
C10_DeleteIdempotent ==
  /\ (plast.op = "delete"
        /\ _resolve_path(UPLOAD_DIR, plast.photo.path) \notin DOMAIN plast.pre_disk) =>
       /\ plast.raised = ""
       /\ disk = plast.pre_disk
  /\ \A photo \in issued :
       LET once == delete(UPLOAD_DIR, photo, disk)
           twice == delete(UPLOAD_DIR, photo, once.disk)
       IN /\ twice.raised = ""
          /\ twice.disk = once.disk
          /\ _resolve_path(UPLOAD_DIR, photo.path) \notin DOMAIN once.disk

\* C10 witness: delete was called on a photo whose file an earlier delete removed.
C10_Witness ==
  /\ plast.op = "delete"
  /\ plast.photo \in issued
  /\ _resolve_path(UPLOAD_DIR, plast.photo.path) \notin DOMAIN plast.pre_disk
  /\ plast.pre_disk # <<>>

\* C11 (as claimed): delete_many applies delete to every photo of the sequence:
\* whatever happens to one photo (file missing, removal refused), every other
\* photo of the sequence whose file exists and can be removed is deleted.
C11_DeleteManyBestEffort ==
  plast.op = "delete_many" =>
    \A i \in 1..Len(plast.photos) :
      LET path == _resolve_path(UPLOAD_DIR, plast.photos[i].path)
      IN (path \in DOMAIN plast.pre_disk /\ path \notin denied) =>
           path \notin DOMAIN disk

\* The part of C11 the code keeps: a missing file does not abort the call.
C11_MissingFileDoesNotAbort ==
  (plast.op = "delete_many" /\ denied = {}) =>
    /\ plast.raised = ""
    /\ \A i \in 1..Len(plast.photos) :
         _resolve_path(UPLOAD_DIR, plast.photos[i].path) \notin DOMAIN disk

(***************************************************************************)
(* Properties of the request handlers (SpecApp).                           *)
(***************************************************************************)
IsStored(id) == \E i \in 1..Len(Stored) : Stored[i].id = id
StoredOf(id) == Stored[CHOOSE i \in 1..Len(Stored) : Stored[i].id = id]
WasStored(id) == \E i \in 1..Len(hlast.pre_stored) : hlast.pre_stored[i].id = id
StoredBefore(id) ==
  hlast.pre_stored[CHOOSE i \in 1..Len(hlast.pre_stored) : hlast.pre_stored[i].id = id]
FileOf(photo) == _resolve_path(UPLOAD_DIR, photo.path)
\* The step just taken finished a request of this kind with a record written.
Wrote(op) == hlast.op = op /\ hlast.status = 200
\* A request is between the start of its delete_many and its write of the record.
Deleting(h) ==
  hpc[h] \in {"update_prune", "update_write", "delete_prune", "delete_audio",
              "delete_write"}

\* C12 (as claimed): whenever no request is in the middle of deleting photos,
\* every photo of every stored record has a path that resolves to an existing
\* file.
C12_PhotosResolve ==
  (\A h \in Handlers : ~Deleting(h)) =>
    LET stored == Stored
    IN \A i \in 1..Len(stored) :
         \A j \in 1..Len(stored[i].photos) : FileOf(stored[i].photos[j]) \in DOMAIN disk

\* C13: the stored created_at of every story is the created_at stored when the
\* story was first inserted, whatever update-photos and delete-photos requests
\* ran since.
C13_CreatedAtKept ==
  LET stored == Stored
  IN \A i \in 1..Len(stored) :
       /\ stored[i].id \in DOMAIN born
       /\ stored[i].created_at = born[stored[i].id]

\* C13 witness: an update-photos request has just rewritten a story.
C13_Witness ==
  /\ Wrote("update")
  /\ IsStored(hlast.record.id)
  /\ StoredOf(hlast.record.id).updated_at > born[hlast.record.id]
  /\ StoredOf(hlast.record.id).story # StoredBefore(hlast.record.id).story

\* C14 (as claimed): a successful update-photos or delete-photos request leaves
\* the stored updated_at strictly greater than the one stored just before its
\* write.
C14_UpdatedAtIncreases ==
  (Wrote("update") \/ Wrote("delete")) =>
    StoredBefore(hlast.record.id).updated_at < StoredOf(hlast.record.id).updated_at

\* The photos a finished update-photos or delete-photos request removed.
RemovedBy(outcome) ==
  IF outcome.op = "delete" THEN outcome.req.photos_to_delete
  ELSE outcome.req.removed_photos

C16_DeleteRemovesExactly ==
  Wrote("delete") =>
    LET previous == hlast.req.story.photos
        now == StoredOf(hlast.record.id).photos
    IN /\ now = photos_not_in(previous, hlast.req.ids_to_remove)
       /\ \A i \in 1..Len(previous) :
            previous[i].id \in hlast.req.ids_to_remove =>
              FileOf(previous[i]) \notin DOMAIN disk
       /\ \A i \in 1..Len(now) : FileOf(now[i]) \in DOMAIN disk

\* C17: a successful upload request with k >= 1 non-empty photos and narration
\* result s adds exactly one record: its photos are the k persisted photos in
\* upload order, its story is s, its created_at equals its updated_at, and get
\* on its id returns it.
C17_UploadAddsOneRecord ==
  Wrote("upload") =>
    LET uploads == hlast.req.photos
        stored == Stored
        added == stored[Len(stored)]
    IN /\ Len(stored) = Len(hlast.pre_stored) + 1
       /\ SubSeq(stored, 1, Len(hlast.pre_stored)) = hlast.pre_stored
       /\ ~WasStored(added.id)
       /\ Len(added.photos) = Len(uploads)
       /\ \A i \in 1..Len(uploads) :
            /\ added.photos[i].size = Len(uploads[i].contents)
            /\ FileOf(added.photos[i]) \in DOMAIN disk
            /\ disk[FileOf(added.photos[i])] = uploads[i].contents
            /\ \A j \in 1..Len(uploads) :
                 j # i => added.photos[j].id # added.photos[i].id
       /\ added.story = NarrationTexts[hlast.req.narration]
       /\ added.created_at = added.updated_at
       /\ hlast.record = added
       /\ repo_get(added.id) = Returned(Some(added))

\* C17 witness: an upload of two photos has just been stored next to another
\* story.
C17_Witness ==
  /\ Wrote("upload")
  /\ Len(hlast.req.photos) = 2
  /\ Len(Stored) = 2
  /\ Stored[2].story # None

\* The handlers that are past their generate_story call.
Narrated(h) == hpc[h] \in {"upload_add", "update_audio", "update_prune", "update_write"}
\* Every file of the first disk is in the second with the same bytes.
KeptFiles(d, e) == \A path \in DOMAIN d : path \in DOMAIN e /\ e[path] = d[path]

\* C18: a request whose narration call fails goes no further and fails: an
\* upload adds no record, an update-photos leaves the stored records, the files
\* that were on disk and the audio files as they were.
C18_NarrationFailureKeepsState ==
  /\ \A h \in Handlers : Narrated(h) => hreq[h].answered
  /\ (hlast.op \in {"upload", "update"} /\ hlast.status # 0
        /\ "answered" \in DOMAIN hlast.req /\ ~hlast.req.answered
        /\ hlast.pre_narrated # n_narrated) =>
       /\ hlast.status = 500
       /\ hlast.detail = "narration"
       /\ Stored = hlast.pre_stored
       /\ audio = hlast.pre_audio
       /\ KeptFiles(hlast.pre_disk, disk)

\* C18 witness: the narration call of an update-photos request on a story with
\* an audio file has just failed, after the request persisted a new upload.
C18_Witness ==
  /\ hlast.op = "update"
  /\ hlast.detail = "narration"
  /\ _get_audio_file_path(hlast.req.story.id) \in DOMAIN audio
  /\ disk # hlast.pre_disk

\* The keep list of an update-photos request names an id that is no photo of
\* the story the request read.
ForeignKeep(req) ==
  /\ "story" \in DOMAIN req
  /\ \E id \in req.keep_set : id \notin photo_ids_of(req.story.photos)

\* C19: an update-photos request whose non-empty keep list names an id that is
\* no photo of the story fails with the 400 of keep_photo_ids and goes no
\* further: no file written or deleted, no audio file deleted, no narration
\* call, the stored records unchanged.
C19_InvalidSelectionFailsFirst ==
  /\ \A h \in Handlers : (hreq[h].op = "update") => ~ForeignKeep(hreq[h])
  /\ (hlast.op = "update" /\ ForeignKeep(hlast.req)) =>
       /\ hlast.status = 400
       /\ hlast.detail = "keep_photo_ids"
       /\ disk = hlast.pre_disk
       /\ audio = hlast.pre_audio
       /\ n_narrated = hlast.pre_narrated
       /\ Stored = hlast.pre_stored

\* C19 witness: a request keeping a photo of the story and a foreign id has just
\* failed, the story having an audio file.
C19_Witness ==
  /\ hlast.op = "update"
  /\ hlast.status = 400
  /\ ForeignKeep(hlast.req)
  /\ photos_in(hlast.req.story.photos, Elements(hlast.req.keep_ids)) # <<>>
  /\ _get_audio_file_path(hlast.req.story.id) \in DOMAIN audio

\* C20: no step removes a story record: an id in the store stays in the store,
\* and the number of stored records never decreases.
C20_NoRecordRemoved ==
  [][/\ \A i \in 1..Len(Stored) : \E j \in 1..Len(Stored') : Stored'[j].id = Stored[i].id
     /\ Len(Stored') >= Len(Stored)]_vars

\* C20 witness: a delete-photos request has just removed the last photo of a
\* story, which is still in the store.
C20_Witness ==
  /\ Wrote("delete")
  /\ hlast.record.photos = <<>>
  /\ IsStored(hlast.record.id)

(***************************************************************************)
(* Further properties of the request handlers (SpecApp).                   *)
(***************************************************************************)
NoDuplicateIds(photos) ==
  \A i, j \in 1..Len(photos) : photos[i].id = photos[j].id => i = j

\* C21: the photos list of every stored story record has no two entries with
\* the same id, whatever upload, update-photos and delete-photos requests ran.
C21_PhotoIdsUnique ==
  LET stored == Stored
  IN \A i \in 1..Len(stored) : NoDuplicateIds(stored[i].photos)

\* C21 witness: an update-photos request has just stored a photo it kept
\* followed by a new upload, next to a story an upload request added.
C21_Witness ==
  /\ Wrote("update")
  /\ hlast.req.photos_to_keep # <<>>
  /\ hlast.req.new_photos # <<>>
  /\ StoredOf(hlast.record.id).photos = hlast.req.photos_to_keep \o hlast.req.new_photos
  /\ Len(Stored) = 2

(***************************************************************************)
(* Further properties of the repository contract (SpecRepo).               *)
(***************************************************************************)
\* Every call so far carried its id: the document store generated none.
CallerSuppliedIds == uuid_count = 0 /\ rlast.op # "none" /\ rlast.file_ret # NotCalled

\* C22 (as claimed): over calls with caller-supplied ids from an empty store,
\* each call has the same outcome in the file-backed and in the document-store
\* repository, and get and list return the same records in both.
C22_VariantsInterchangeable ==
  CallerSuppliedIds =>
    /\ rlast.file_ret = rlast.doc_ret
    /\ file_list(files) = doc_list(collection)
    /\ \A story_id \in StoryIds :
         file_get(files, story_id) = doc_get(collection, story_id)

\* C23 (as claimed): a successful add of the document store returns the record
\* with its final id, a fresh one when the record had none and its own
\* otherwise; the document is stored under that id and get on it returns the
\* returned record.
C23_AddAssignsId ==
  (rlast.op = "add" /\ rlast.doc_ret.raised = "") =>
    LET returned == rlast.doc_ret.val
    IN /\ returned = [rlast.arg EXCEPT !.id = returned.id]
       /\ returned.id # None
       /\ rlast.arg.id # None => returned.id = rlast.arg.id
       /\ rlast.arg.id = None => find_one(rlast.pre_collection, returned.id) = Nothing
       /\ find_one(collection, returned.id) # Nothing
       /\ doc_get(collection, returned.id) = Returned(Some(returned))

\* The part of C23 the code keeps: the id of the returned record is the _id of a
\* stored document, fresh or the caller's.
C23_IdStored ==
  (rlast.op = "add" /\ rlast.doc_ret.raised = "") =>
    LET returned == rlast.doc_ret.val
    IN /\ returned = [rlast.arg EXCEPT !.id = returned.id]
       /\ returned.id # None
       /\ rlast.arg.id # None => returned.id = rlast.arg.id
       /\ rlast.arg.id = None => find_one(rlast.pre_collection, returned.id) = Nothing
       /\ find_one(collection, returned.id) # Nothing
       /\ rlast.arg.story # None => doc_get(collection, returned.id) = Returned(Some(returned))

(***************************************************************************)
(* Further properties of the request handlers (SpecApp), continued.        *)
(***************************************************************************)
\* C24: the files an upload or update-photos request persisted before its
\* narration call failed stay on disk, and no stored record references them,
\* whatever requests run afterwards.
C24_OrphansStay ==
  LET stored == Stored
  IN \A path \in orphaned :
       /\ path \in DOMAIN disk
       /\ \A i \in 1..Len(stored) :
            \A j \in 1..Len(stored[i].photos) : FileOf(stored[i].photos[j]) # path

\* C24 witness: after a request left an orphaned file, a later update-photos or
\* delete-photos request has rewritten a story.
C24_Witness ==
  /\ Wrote("update") \/ Wrote("delete")
  /\ orphaned # {}
  /\ orphaned \subseteq DOMAIN hlast.pre_disk
  /\ orphaned \subseteq DOMAIN disk

\* C26 (as claimed): a photo that a finished delete-photos request removed from
\* a story is in that story's stored photos list never again.
C26_RemovedStaysRemoved ==
  LET stored == Stored
  IN \A i \in 1..Len(stored) :
       \A j \in 1..Len(stored[i].photos) :
         <<stored[i].id, stored[i].photos[j].id>> \notin deleted

\* C27 (as claimed): every stored story record has at least one photo.
C27_AtLeastOnePhoto ==
  LET stored == Stored
  IN \A i \in 1..Len(stored) : stored[i].photos # <<>>

\* The part of C27 the code keeps: the record an upload or an update-photos
\* request writes has at least one photo.
C27_UploadAndUpdateKeepAPhoto ==
  (Wrote("upload") \/ Wrote("update")) => hlast.record.photos # <<>>

\* No request is in flight.
AllIdle == \A h \in Handlers : hpc[h] = "idle"

\* C28 (as claimed): whenever no request is in flight, the Cantonese audio file
\* of a story exists only if the stored record has a story text, and the file
\* speaks that text.
C28_AudioIsFresh ==
  AllIdle =>
    LET stored == Stored
    IN \A i \in 1..Len(stored) :
         _get_audio_file_path(stored[i].id) \in DOMAIN audio =>
           /\ stored[i].story \notin {None, ""}
           /\ audio[_get_audio_file_path(stored[i].id)] = stored[i].story

\* The story a finished delete-photos request asked about was stored when the
\* request read it, and the photos it had then.
DeleteFoundStory(o) == "story" \in DOMAIN o.req \/ WasStored(o.req.story_id)
DeleteSawPhotos(o) ==
  IF "story" \in DOMAIN o.req THEN o.req.story.photos
  ELSE IF WasStored(o.req.story_id) THEN StoredBefore(o.req.story_id).photos
  ELSE <<>>
\* The three cases in which a delete-photos request is to fail.
DeleteShouldFail(o) ==
  \/ ~DeleteFoundStory(o)
  \/ o.req.ids_to_remove = {}
  \/ photos_in(DeleteSawPhotos(o), o.req.ids_to_remove) = <<>>

\* C29 (as claimed): a delete-photos request fails exactly when the story does
\* not exist, the id list is empty or no requested id belongs to the story, and
\* then leaves the records, the photo files and the audio files as they were;
\* otherwise it succeeds and the stored photos are those stored before it less
\* the requested ones, whose files are gone.
C29_DeleteFailsExactlyWhen ==
  (hlast.op = "delete") =>
    /\ (hlast.status # 200) <=> DeleteShouldFail(hlast)
    /\ (hlast.status # 200) =>
         /\ Stored = hlast.pre_stored
         /\ disk = hlast.pre_disk
         /\ audio = hlast.pre_audio
    /\ (hlast.status = 200) =>
         /\ StoredOf(hlast.record.id).photos
              = photos_not_in(StoredBefore(hlast.record.id).photos, hlast.req.ids_to_remove)
         /\ \A i \in 1..Len(hlast.req.photos_to_delete) :
              FileOf(hlast.req.photos_to_delete[i]) \notin DOMAIN disk

(***************************************************************************)
(* The lock of the file-backed repository (SpecLock).                      *)
(***************************************************************************)
\* The thread is inside the `with self._lock:` block of its call.
InBlock(t) == pc[t] \in {"read", "write", "chunk", "rename", "unlock"}
\* The lock is held by the one thread inside its block, and by nobody else.
LockHeldInBlock ==
  /\ \A t \in Threads : InBlock(t) <=> lock = t
  /\ \A t, u \in Threads : (InBlock(t) /\ InBlock(u)) => t = u

\* C25: at most one thread at a time is inside the read-modify-write block and
\* the lock is held exactly while a thread is inside it, so it is free after
\* every exit (a return, update finding no id, a read or write raising); and
\* every call that was started returns or raises.
C25_LockDiscipline ==
  /\ []LockHeldInBlock
  /\ \A t \in Threads : (pc[t] # "idle") ~> (pc[t] = "idle")

\* C25 witness: a call raised inside the block (no matching id, or a read or
\* write error) while another call was waiting, and that call now holds the
\* lock.
C25_Witness ==
  \E t, u \in Threads :
    /\ t # u
    /\ pc[t] = "idle"
    /\ ret[t].raised \in {"KeyError", "OSError"}
    /\ overlap[t] /\ overlap[u]
    /\ InBlock(u)
    /\ lock = u

(***************************************************************************)
(* Properties of VectorIndex (SpecVec).                                    *)
(***************************************************************************)
Min(a, b) == IF a < b THEN a ELSE b

\* C30 (as claimed): search(query, k) over n added documents returns at most
\* min(k, n) documents, each of them added and none of them twice.
C30_SearchWithinAdded ==
  vi_last.op = "search" =>
    /\ vi_last.result.raised = ""
    /\ LET result == vi_last.result.val
       IN /\ Len(result) <= Min(vi_last.k, Len(vi_docs))
          /\ \A p \in 1..Len(result) : result[p] \in Elements(vi_docs)
          /\ \A p, q \in 1..Len(result) : result[p] = result[q] => p = q

\* What search does instead: with k <= n it returns k different documents that
\* were added; with k > n >= 1 it returns k documents, the last added one in
\* each padded position; on an empty index it raises IndexError.
C30_PaddingReadsLastDocument ==
  vi_last.op = "search" =>
    IF vi_docs = <<>> THEN vi_last.result = Raised("IndexError")
    ELSE /\ vi_last.result.raised = ""
         /\ LET result == vi_last.result.val
                n == Len(vi_docs)
            IN /\ Len(result) = vi_last.k
               /\ \A p \in 1..Len(result) : result[p] \in Elements(vi_docs)
               /\ \A p, q \in 1..Min(vi_last.k, n) : result[p] = result[q] => p = q
               /\ \A p \in (n + 1)..vi_last.k : result[p] = vi_docs[n]

====
